---- MODULE Spec2Model ----
(***************************************************************************)
(* Model of the Audi Connect client (audi_connect.py): the token store,    *)
(* login(), _refresh_tokens(), _get_mbb_token() and authenticated_get().   *)
(* Every await on a network round trip is a step boundary: a request is    *)
(* issued by one action and its response is handled by the next one.       *)
(***************************************************************************)
EXTENDS Integers, Sequences, FiniteSets, TLC

Tasks == {1, 2}

\* Bounds of the model.
MaxGen == 2
MaxNow == 1
MaxCalls == 1
ExpiresIn == 1
\* How far the model follows a redirect chain (the code itself has no limit):
\* HopBound in the specifications of the full login, LoginHops where login()
\* is called with every token file.
HopBound == 2
LoginHops == 1
\* The hop count the redirect chain is required to stop at.
MaxHops == 20

VARIABLES mem, openid_config, file, now, gen, task, server, peer, geocode_cache,
          cache_call

vars == <<mem, openid_config, file, now, gen, task, server, peer, geocode_cache, cache_call>>

(***************************************************************************)
(* Values.  A token is a record naming its kind and the generation of the  *)
(* server response that issued it; None is Python's None, Empty is "".     *)
(***************************************************************************)
None == [k |-> "none", g |-> 0]
Empty == [k |-> "empty", g |-> 0]
Tok(kind, g) == [k |-> kind, g |-> g]
Truthy(v) == v.k \notin {"none", "empty"}

\* An expiry in memory is None or a datetime; in the file it is null, an
\* ISO-8601 string or a string that datetime.fromisoformat rejects.
At(n) == [k |-> "datetime", g |-> n]
Iso(n) == [k |-> "iso", g |-> n]
BadIso == [k |-> "badiso", g |-> 0]

isoformat(e) == IF Truthy(e) THEN Iso(e.g) ELSE None
ParsesAsIso(s) == s.k = "iso"
fromisoformat(s) == At(s.g)

EmptyRecord ==
    [access_token |-> None, refresh_token |-> None, id_token |-> None,
     mbb_token |-> None, token_expiry |-> None, mbb_token_expiry |-> None]

\* The token file: missing, not valid JSON ("corrupt"), left truncated by a
\* write that failed ("partial"), or a JSON object ("ok").
FileOf(st, rec) == [st |-> st, rec |-> rec]
MissingFile == FileOf("missing", EmptyRecord)
CorruptFile == FileOf("corrupt", EmptyRecord)
PartialFile == FileOf("partial", EmptyRecord)

\* What the identity server hands out during one login conversation: the
\* relayState of the email redirect, and the csrf token and hmac of the
\* authenticate page.
PageValues == {1, 2}
Servers == [relay : PageValues, csrf : PageValues, hmac : PageValues]
OneServer == [relay |-> 1, csrf |-> 1, hmac |-> 1]

(***************************************************************************)
(* Token store.                                                            *)
(***************************************************************************)
\* _load_tokens: the assignments are made in order, so that an expiry that
\* does not parse leaves the fields assigned before it.
LoadedTokens(m, f) ==
    [m EXCEPT !.access_token = f.rec.access_token,
              !.refresh_token = f.rec.refresh_token,
              !.id_token = f.rec.id_token,
              !.mbb_token = f.rec.mbb_token]

LoadResultAnyExpiry(m, f) ==
    IF f.st # "ok" THEN [ok |-> FALSE, mem |-> m]
    ELSE [ok |-> TRUE, mem |-> LoadedTokens(m, f)]

LoadResult(m, f) ==
    IF f.st # "ok" THEN [ok |-> FALSE, mem |-> m]
    ELSE LET m1 == LoadedTokens(m, f)
             te == f.rec.token_expiry
             me == f.rec.mbb_token_expiry
         IN IF Truthy(te) /\ ~ParsesAsIso(te) THEN [ok |-> FALSE, mem |-> m1]
            ELSE LET m2 == IF Truthy(te)
                           THEN [m1 EXCEPT !.token_expiry = fromisoformat(te)]
                           ELSE m1
                 IN IF Truthy(me) /\ ~ParsesAsIso(me)
                    THEN [ok |-> FALSE, mem |-> m2]
                    ELSE [ok |-> TRUE,
                          mem |-> IF Truthy(me)
                                  THEN [m2 EXCEPT !.mbb_token_expiry = fromisoformat(me)]
                                  ELSE m2]

\* _save_tokens: the record written from memory.
SavedRecord(m) ==
    [access_token |-> m.access_token, refresh_token |-> m.refresh_token,
     id_token |-> m.id_token, mbb_token |-> m.mbb_token,
     token_expiry |-> isoformat(m.token_expiry),
     mbb_token_expiry |-> isoformat(m.mbb_token_expiry)]

\* Path.write_text opens the file for writing (truncating it) and writes: it
\* succeeds, fails before the file is opened, or fails after the truncation.
SaveOutcomes == {"ok", "open_failed", "write_failed"}

FileAfterSave(m, f, outcome) ==
    CASE outcome = "ok" -> FileOf("ok", SavedRecord(m))
      [] outcome = "open_failed" -> f
      [] OTHER -> PartialFile

\* A crash of the process during _save_tokens: before the file is opened,
\* between the truncation and the end of the write, or after the write.
CrashPoints == {"before_open", "mid_write", "after_write"}

FileAfterCrash(m, f, point) ==
    CASE point = "before_open" -> f
      [] point = "mid_write" -> PartialFile
      [] OTHER -> FileOf("ok", SavedRecord(m))

(***************************************************************************)
(* Locations.  A URL is modelled by what login() looks at: how it starts   *)
(* ("/", "myaudi:" or anything else), whether its path is the              *)
(* consent/marketing page, the code parameter of its query and of its      *)
(* fragment (0: none), a query parameter whose name only ends in "code",   *)
(* and the callback parameter of its query.  NoLoc is the empty string.    *)
(***************************************************************************)
Loc(scheme, consent, qcode, fcode, xcode, callback) ==
    [scheme |-> scheme, consent |-> consent, qcode |-> qcode, fcode |-> fcode,
     xcode |-> xcode, callback |-> callback]

NoLoc == Loc("", FALSE, 0, 0, FALSE, "none")
PlainLoc == Loc("https", FALSE, 0, 0, FALSE, "none")
RelLoc == Loc("rel", FALSE, 0, 0, FALSE, "none")
ConsentLoc == Loc("https", TRUE, 0, 0, FALSE, "none")
ConsentCallbackLoc == Loc("https", TRUE, 0, 0, FALSE, "plain")
AppLoc == Loc("myaudi", FALSE, 0, 0, FALSE, "none")
CodeLoc(c) == Loc("myaudi", FALSE, c, 0, FALSE, "none")
FragmentCodeLoc(c) == Loc("myaudi", FALSE, 0, c, FALSE, "none")
\* a code parameter in the query and another one in the fragment
BothCodeLoc == Loc("myaudi", FALSE, 2, 1, FALSE, "none")
ErrorCodeLoc == Loc("https", FALSE, 0, 0, TRUE, "none")

Locs ==
    {PlainLoc, RelLoc, ConsentLoc, ConsentCallbackLoc, AppLoc, ErrorCodeLoc}
      \cup {CodeLoc(1), FragmentCodeLoc(1), BothCodeLoc}

\* location is not the empty string
NonEmpty(l) == l.scheme # ""
\* "code=" in location
ContainsCodeEq(l) == l.qcode > 0 \/ l.fcode > 0 \/ l.xcode
\* location.startswith("myaudi:"), location.startswith("/")
StartsWithMyaudi(l) == l.scheme = "myaudi"
StartsWithSlash(l) == l.scheme = "rel"
\* "https://identity.vwgroup.io" + location
Absolute(l) == IF StartsWithSlash(l) THEN [l EXCEPT !.scheme = "https"] ELSE l
\* "consent/marketing" in location
IsConsentPage(l) == l.consent
\* parse_qs(urlparse(location).query).get("callback", [""])[0]
CallbackUrl(l) == IF l.callback = "plain" THEN PlainLoc ELSE NoLoc

(***************************************************************************)
(* Tasks.  Each task is one coroutine running on the session.  Beside the  *)
(* position (pc), the caller of the running _refresh_tokens or             *)
(* _get_mbb_token (ctx) and the locals of the code, a task records what    *)
(* its current call did: the HTTP requests it issued, each with the        *)
(* credential or value it carries (reqs; the GETs of the redirect chain    *)
(* are counted in hops instead), the status of the last answer to          *)
(* authenticated_get's GET, the number of _refresh_tokens and _save_tokens *)
(* calls, the stage at which login's refresh attempt failed, the token     *)
(* file and the time at the start of the call, the number of consent pages *)
(* met, the Location of the last consent answer, and whether the last      *)
(* answer it received had a 4xx or 5xx status (badStatus), and what the    *)
(* last page or redirect that login() parsed held (seen).  tokens is the   *)
(* generation of the token-endpoint answer the call received (0: none).    *)
(***************************************************************************)
Req(kind, v) == [k |-> kind, v |-> v]

IdleTask ==
    [pc |-> "idle", op |-> "none", ctx |-> "none", attempt |-> 0,
     reqs |-> <<>>, result |-> "none", status |-> 0, raisedAt |-> "none",
     lastStatus |-> 0, path |-> "none", calls |-> 0, first401 |-> FALSE,
     refreshCalls |-> 0, refreshFailed |-> "none", saves |-> 0,
     fileAtStart |-> MissingFile, startedAt |-> 0,
     location |-> NoLoc, new_loc |-> NoLoc, hops |-> 0, consentPages |-> 0,
     consent_csrf |-> "none", consent_location |-> NoLoc,
     body_js |-> NoLoc, jsMatch |-> FALSE, code |-> 0, relay_state |-> 0,
     new_csrf |-> 0, new_hmac |-> 0, badStatus |-> FALSE, seen |-> "none",
     tokens |-> 0]

\* A call starts with its per-call fields reset.
NewCall(rec, op, f, n) ==
    [IdleTask EXCEPT !.op = op, !.calls = rec.calls + 1, !.fileAtStart = f,
                     !.startedAt = n]

Sent(rec, kind, v) == [rec EXCEPT !.reqs = Append(rec.reqs, Req(kind, v))]

\* The task after the answer with this status was handled.
Answered(rec, status) == [rec EXCEPT !.badStatus = status >= 400]

Count(reqs, kind) == Cardinality({i \in DOMAIN reqs : reqs[i].k = kind})
Gets(rec) == Count(rec.reqs, "get")

\* An exception leaving the current frame: login() catches what its refresh
\* attempt raises and goes on with the full login; everything else reaches
\* the caller.
Raised(rec, stage) ==
    [rec EXCEPT !.pc = "done", !.result = "raised", !.raisedAt = stage]

LoginRefreshFailed(rec, stage) ==
    [Sent(rec, "openid_get", None) EXCEPT !.pc = "lg_config", !.ctx = "login_full",
                                          !.refreshFailed = stage]

RaiseUncaught(rec, stage) == Raised(rec, stage)

RaiseSwallowedByGet(rec, stage) ==
    IF rec.ctx = "ag"
    THEN [Sent(rec, "get", None) EXCEPT !.pc = "ag_get", !.attempt = 1, !.ctx = "none"]
    ELSE Raised(rec, stage)

Raise(rec, stage) ==
    IF rec.ctx = "login_refresh" THEN LoginRefreshFailed(rec, stage)
    ELSE Raised(rec, stage)

(***************************************************************************)
(* authenticated_get                                                       *)
(***************************************************************************)
ApiStatuses == {200, 401, 500}

\* The Authorization header of authenticated_get.
BearerOf(m) == m.access_token

IssueGet(rec, m) == [Sent(rec, "get", BearerOf(m)) EXCEPT !.pc = "ag_get"]

\* _refresh_tokens up to its first await: the OpenID configuration is fetched
\* when the session has none, otherwise the refresh grant is posted.
PostRefresh(rec, m) ==
    [Sent(rec, "refresh_post", m.refresh_token) EXCEPT !.pc = "rf_token"]

RefreshEnter(rec, m, cfg) ==
    LET r == [rec EXCEPT !.refreshCalls = rec.refreshCalls + 1]
    IN IF ~cfg THEN [Sent(r, "openid_get", None) EXCEPT !.pc = "rf_config"]
       ELSE PostRefresh(r, m)

\* What authenticated_get does with a response.
AgAfterResponseRetryAlways(rec, m, cfg, status) ==
    IF status = 401
    THEN RefreshEnter([rec EXCEPT !.ctx = "ag"], m, cfg)
    ELSE [rec EXCEPT !.pc = "done", !.result = "returned", !.status = status]

AgAfterResponse(rec, m, cfg, status) ==
    IF status = 401 /\ rec.attempt = 0
    THEN RefreshEnter([rec EXCEPT !.ctx = "ag"], m, cfg)
    ELSE [rec EXCEPT !.pc = "done", !.result = "returned", !.status = status]

\* After _refresh_tokens returned: the second iteration of the loop.
AgRetry(rec, m) == IssueGet([rec EXCEPT !.attempt = 1, !.ctx = "none"], m)

AgStart(t) ==
    /\ task[t].pc \in {"idle", "done"}
    /\ task[t].calls < MaxCalls
    /\ task' = [task EXCEPT ![t] = IssueGet(NewCall(task[t], "ag", file, now), mem)]
    /\ UNCHANGED <<mem, openid_config, file, now, gen, server, peer, geocode_cache, cache_call>>

AgResponse(t) ==
    /\ task[t].pc = "ag_get"
    /\ \E status \in ApiStatuses :
          task' = [task EXCEPT ![t] =
                     [AgAfterResponse(task[t], mem, openid_config, status)
                        EXCEPT !.lastStatus = status,
                               !.first401 = task[t].first401
                                              \/ (status = 401 /\ Gets(task[t]) = 1)]]
    /\ UNCHANGED <<mem, openid_config, file, now, gen, server, peer, geocode_cache, cache_call>>

(***************************************************************************)
(* _refresh_tokens and _get_mbb_token                                      *)
(***************************************************************************)
\* The shapes of a 200 answer of the token endpoint: which fields it holds.
\* A field it holds can also be null ("null_refresh_token").
TokenShapes == {"full", "no_refresh_token", "null_refresh_token", "no_access_token"}

\* The tokens of the g-th answer of the token endpoint.
TokenResponse(shape, g) ==
    [access_token |-> IF shape = "no_access_token" THEN None ELSE Tok("access", g),
     has_refresh |-> shape # "no_refresh_token",
     refresh_token |-> IF shape = "null_refresh_token" THEN None ELSE Tok("refresh", g),
     id_token |-> Tok("id", g)]

ExpiryFrom(n) == At(n + ExpiresIn)

\* _refresh_tokens, the assignments after a 200 of the token endpoint.
RefreshAssign(m, tokens, n) ==
    [m EXCEPT !.access_token = tokens.access_token,
              !.refresh_token = IF tokens.has_refresh THEN tokens.refresh_token
                                ELSE m.refresh_token,
              !.id_token = tokens.id_token,
              !.token_expiry = ExpiryFrom(n)]

PostMbbAccessToken(rec, m) == [Sent(rec, "mbb_post", m.access_token) EXCEPT !.pc = "mbb"]

\* _get_mbb_token posts the session's id token.
PostMbb(rec, m) == [Sent(rec, "mbb_post", m.id_token) EXCEPT !.pc = "mbb"]

\* The capability token the second-stage endpoint derives from an id token.
MbbFor(idtok) == Tok("mbb", idtok.g)

MbbAssign(m, posted, n) ==
    [m EXCEPT !.mbb_token = MbbFor(posted), !.mbb_token_expiry = ExpiryFrom(n)]

LastSent(rec, kind) ==
    LET idx == {i \in DOMAIN rec.reqs : rec.reqs[i].k = kind}
    IN rec.reqs[CHOOSE i \in idx : \A j \in idx : j <= i].v

RefreshConfigResponse(t) ==
    /\ task[t].pc = "rf_config"
    /\ \E status \in {200, 500} :
          IF status # 200
          THEN /\ task' = [task EXCEPT ![t] = Answered(Raise(task[t], "openid"), status)]
               /\ UNCHANGED openid_config
          ELSE /\ openid_config' = TRUE
               /\ task' = [task EXCEPT ![t] = Answered(PostRefresh(task[t], mem), status)]
    /\ UNCHANGED <<mem, file, now, gen, server, peer, geocode_cache, cache_call>>

RefreshTokenResponse(t) ==
    /\ task[t].pc = "rf_token"
    /\ \E status \in {200, 400}, shape \in TokenShapes :
          IF status # 200
          THEN /\ task' = [task EXCEPT ![t] = Answered(Raise(task[t], "refresh"), status)]
               /\ UNCHANGED <<mem, gen>>
          ELSE /\ gen < MaxGen
               /\ gen' = gen + 1
               /\ mem' = RefreshAssign(mem, TokenResponse(shape, gen + 1), now)
               /\ task' = [task EXCEPT ![t] =
                              Answered(PostMbb([task[t] EXCEPT !.tokens = gen + 1], mem'),
                                       status)]
    /\ UNCHANGED <<openid_config, file, now, server, peer, geocode_cache, cache_call>>

\* What follows a successful _get_mbb_token: _save_tokens, then the return to
\* the caller (authenticated_get retries, login returns True).
AfterSave(rec, m, outcome) ==
    IF outcome # "ok" THEN Raise(rec, "save")
    ELSE IF rec.ctx = "ag" THEN AgRetry(rec, m)
    ELSE [rec EXCEPT !.pc = "done", !.result = "returned",
                     !.path = IF rec.ctx = "login_refresh" THEN "refreshed" ELSE "full"]

MbbResponse(t) ==
    /\ task[t].pc = "mbb"
    /\ \E status \in {200, 403}, outcome \in SaveOutcomes :
          IF status # 200
          THEN /\ task' = [task EXCEPT ![t] = Answered(Raise(task[t], "mbb"), status)]
               /\ UNCHANGED <<mem, file>>
          ELSE /\ mem' = MbbAssign(mem, LastSent(task[t], "mbb_post"), now)
               /\ file' = FileAfterSave(mem', file, outcome)
               /\ task' = [task EXCEPT ![t] =
                              Answered(AfterSave([task[t] EXCEPT !.saves = task[t].saves + 1],
                                                 mem', outcome), status)]
    /\ UNCHANGED <<openid_config, now, gen, server, peer, geocode_cache, cache_call>>

\* The process crashes during the _save_tokens that follows a successful
\* _get_mbb_token: every coroutine of the process ends there.
SaveCrash(t) ==
    /\ task[t].pc = "mbb"
    /\ \E point \in CrashPoints :
          /\ mem' = MbbAssign(mem, LastSent(task[t], "mbb_post"), now)
          /\ file' = FileAfterCrash(mem', file, point)
          /\ task' = [u \in Tasks |->
                        [task[u] EXCEPT !.pc = "crashed",
                                        !.saves = IF u = t THEN @ + 1 ELSE @]]
    /\ UNCHANGED <<openid_config, now, gen, server, peer, geocode_cache, cache_call>>

(***************************************************************************)
(* login()                                                                 *)
(***************************************************************************)
CachedValidReversed(m, n) ==
    Truthy(m.mbb_token) /\ Truthy(m.mbb_token_expiry) /\ m.mbb_token_expiry.g < n

\* The test of the cached capability token.
CachedValid(m, n) ==
    Truthy(m.mbb_token) /\ Truthy(m.mbb_token_expiry) /\ n < m.mbb_token_expiry.g

\* The full login starts by fetching the OpenID configuration.
FullLoginStart(rec) ==
    [Sent(rec, "openid_get", None) EXCEPT !.pc = "lg_config", !.ctx = "login_full"]

LoginEnterNoRefresh(rec, lr, cfg, n) ==
    IF lr.ok /\ CachedValid(lr.mem, n)
    THEN [rec EXCEPT !.pc = "done", !.result = "returned", !.path = "cached"]
    ELSE FullLoginStart(rec)

\* login() up to its first await; lr is what _load_tokens did.
LoginEnter(rec, lr, cfg, n) ==
    IF lr.ok /\ CachedValid(lr.mem, n)
    THEN [rec EXCEPT !.pc = "done", !.result = "returned", !.path = "cached"]
    ELSE IF lr.ok /\ Truthy(lr.mem.refresh_token)
    THEN RefreshEnter([rec EXCEPT !.ctx = "login_refresh"], lr.mem, cfg)
    ELSE FullLoginStart(rec)

\* login() is called once, on a new session (main).
LoginStart(t) ==
    /\ task[t].pc = "idle"
    /\ LET lr == LoadResult(mem, file)
       IN /\ mem' = lr.mem
          /\ task' = [task EXCEPT ![t] =
                         LoginEnter(NewCall(task[t], "login", file, now), lr, openid_config, now)]
    /\ UNCHANGED <<openid_config, file, now, gen, server, peer, geocode_cache, cache_call>>

LoginConfigResponse(t) ==
    /\ task[t].pc = "lg_config"
    /\ \E status \in {200, 500} :
          IF status # 200
          THEN /\ task' = [task EXCEPT ![t] = Answered(Raise(task[t], "openid"), status)]
               /\ UNCHANGED openid_config
          ELSE /\ openid_config' = TRUE
               /\ task' = [task EXCEPT ![t] =
                              Answered([Sent(task[t], "authpage_get", None)
                                          EXCEPT !.pc = "lg_authpage"], status)]
    /\ UNCHANGED <<mem, file, now, gen, server, peer, geocode_cache, cache_call>>

ParseFormGuessAction(rec, page) ==
    [Sent(rec, "email_post", None) EXCEPT !.pc = "lg_email"]

\* The form of the email page: without a form action login() raises,
\* otherwise it posts the email.
ParseForm(rec, page) ==
    IF page = "no_form" THEN Raise(rec, "form")
    ELSE [Sent(rec, "email_post", None) EXCEPT !.pc = "lg_email"]

\* The answer to the authorization-page GET: a 302 is followed by hand (and a
\* 302 without a Location header raises), any other status is read as the page.
AfterAuthPage(rec, status, hasLocation, page) ==
    IF status = 302
    THEN IF hasLocation
         THEN [Sent(rec, "authpage_get", None) EXCEPT !.pc = "lg_authpage2"]
         ELSE Raise(rec, "authpage")
    ELSE ParseForm(rec, page)

LoginAuthPageResponse(t) ==
    /\ task[t].pc = "lg_authpage"
    /\ \E status \in {200, 302, 500}, hasLocation \in BOOLEAN, page \in {"form", "no_form"} :
          task' = [task EXCEPT ![t] =
                     [Answered(AfterAuthPage(task[t], status, hasLocation, page), status)
                        EXCEPT !.seen = IF status = 302 THEN "none" ELSE page]]
    /\ UNCHANGED <<mem, openid_config, file, now, gen, server, peer, geocode_cache, cache_call>>

LoginAuthPageRedirected(t) ==
    /\ task[t].pc = "lg_authpage2"
    /\ \E status \in {200, 500}, page \in {"form", "no_form"} :
          task' = [task EXCEPT ![t] =
                     [Answered(ParseForm(task[t], page), status) EXCEPT !.seen = page]]
    /\ UNCHANGED <<mem, openid_config, file, now, gen, server, peer, geocode_cache, cache_call>>

\* The answer to the email POST; relay is the relayState of the redirect's
\* query (0: none).
AfterEmail(rec, status, hasLocation, relay) ==
    IF status \notin {302, 303} THEN Raise(rec, "email")
    ELSE IF ~hasLocation THEN Raise(rec, "email")
    ELSE IF relay = 0 THEN Raise(rec, "relay_state")
    ELSE [Sent(rec, "authenticate_get", Tok("relay", relay))
            EXCEPT !.pc = "lg_authenticate", !.relay_state = relay]

LoginEmailResponse(t) ==
    /\ task[t].pc = "lg_email"
    /\ \E status \in {302, 303, 200, 400}, hasLocation \in BOOLEAN,
          relay \in {0, server.relay} :
          task' = [task EXCEPT ![t] =
                     [Answered(AfterEmail(task[t], status, hasLocation, relay), status)
                        EXCEPT !.seen = IF status \notin {302, 303} \/ ~hasLocation THEN "none"
                                        ELSE IF relay = 0 THEN "no_relay_state"
                                        ELSE "relay_state"]]
    /\ UNCHANGED <<mem, openid_config, file, now, gen, server, peer, geocode_cache, cache_call>>

\* The form posted with the password.
PasswordData(relay_state, new_csrf, new_hmac) ==
    [k |-> "password", relayState |-> relay_state, csrf |-> new_csrf, hmac |-> new_hmac]

AfterAuthenticateFixedCsrf(rec, page, csrf, hmac) ==
    IF page # "ok" THEN Raise(rec, page)
    ELSE [Sent(rec, "password_post", PasswordData(rec.relay_state, 1, hmac))
            EXCEPT !.pc = "lg_password", !.new_csrf = 1, !.new_hmac = hmac]

\* The authenticate page: window._IDK, csrf_token and hmac must all be found;
\* the password is posted with the page's csrf token and hmac.
AfterAuthenticate(rec, page, csrf, hmac) ==
    IF page # "ok" THEN Raise(rec, page)
    ELSE LET r == [rec EXCEPT !.new_csrf = csrf, !.new_hmac = hmac]
         IN [Sent(r, "password_post", PasswordData(r.relay_state, r.new_csrf, r.new_hmac))
               EXCEPT !.pc = "lg_password"]

LoginAuthenticateResponse(t) ==
    /\ task[t].pc = "lg_authenticate"
    /\ \E status \in {200, 500}, page \in {"ok", "no_idk", "no_csrf_token", "no_hmac"} :
          task' = [task EXCEPT ![t] =
                     [Answered(AfterAuthenticate(task[t], page, server.csrf, server.hmac),
                               status) EXCEPT !.seen = page]]
    /\ UNCHANGED <<mem, openid_config, file, now, gen, server, peer, geocode_cache, cache_call>>

\* The authorization code of the final location: the code parameter of the
\* query, else the one of the fragment.
CodeOfFragmentFirst(l) == IF l.fcode > 0 THEN l.fcode ELSE l.qcode

CodeOf(l) == IF l.qcode > 0 THEN l.qcode ELSE l.fcode

\* After the redirect chain: the code is extracted and the
\* authorization_code grant is posted.
ExtractCode(rec) ==
    IF ~ContainsCodeEq(rec.location) THEN Raise(rec, "no_code")
    ELSE IF CodeOf(rec.location) = 0 THEN Raise(rec, "no_code_value")
    ELSE [Sent(rec, "token_post", Tok("code", CodeOf(rec.location)))
            EXCEPT !.pc = "lg_token", !.code = CodeOf(rec.location)]

\* The condition of the redirect-following loop.
LoopCondition(l) == NonEmpty(l) /\ ~ContainsCodeEq(l) /\ ~StartsWithMyaudi(l)

\* The head of the loop: one more GET (new_loc is assigned anew from its
\* answer before it is read again), or the loop is left.
ChainLoop(rec) ==
    IF LoopCondition(rec.location)
    THEN [rec EXCEPT !.location = Absolute(rec.location), !.hops = rec.hops + 1,
                     !.new_loc = NoLoc, !.body_js = NoLoc, !.pc = "lg_chain"]
    ELSE ExtractCode(rec)

\* The answer to the password POST.
AfterPassword(rec, status, loc, errorText) ==
    IF NonEmpty(loc) THEN ChainLoop([rec EXCEPT !.location = Absolute(loc)])
    ELSE IF errorText \/ status >= 400 THEN Raise(rec, "password")
    ELSE ChainLoop([rec EXCEPT !.location = NoLoc])

\* The end of an iteration without a next location: a JS redirect found in a
\* 200 body is stored in new_loc, and the loop is left by break.
Break(rec, status, js) ==
    ExtractCode(IF status = 200 /\ NonEmpty(js)
                THEN [rec EXCEPT !.new_loc = js, !.jsMatch = TRUE]
                ELSE rec)

\* The end of an iteration: new_loc is the next location, if there is one.
AfterHop(rec, status, js) ==
    IF ~NonEmpty(rec.new_loc) THEN Break(rec, status, js)
    ELSE ChainLoop([rec EXCEPT !.location = rec.new_loc])

\* The form posted to the consent page.
ConsentData == [k |-> "consent", marketingPermission |-> "NO"]

\* The csrf value posted with it: the page's token, or "" when it has none.
ConsentCsrf(hasCsrf) == IF hasCsrf THEN "csrf_token" ELSE ""

\* The answer to a GET of the chain: loc is its Location header, js the JS
\* redirect of its body, hasCsrf whether its body holds a csrf token.
AfterChainGet(rec, status, loc, js, hasCsrf) ==
    IF status = 200 /\ IsConsentPage(rec.location)
    THEN [Sent(rec, "consent_post", ConsentData)
            EXCEPT !.pc = "lg_consent", !.consent_csrf = ConsentCsrf(hasCsrf),
                   !.new_loc = loc, !.body_js = js]
    ELSE AfterHop([rec EXCEPT !.new_loc = loc], status, js)

AfterConsentCallbackOnly(rec, loc) ==
    AfterHop([rec EXCEPT !.new_loc = CallbackUrl(rec.location)], 200, rec.body_js)

\* The answer to the consent POST: its Location header, else the callback
\* parameter of the consent page's URL.
AfterConsent(rec, loc) ==
    AfterHop([rec EXCEPT !.new_loc = IF NonEmpty(loc) THEN loc
                                     ELSE CallbackUrl(rec.location)],
             200, rec.body_js)

ChainStatuses == {200, 302, 500}
JsTargets == {NoLoc, CodeLoc(1)}

LoginPasswordResponse(t, cap) ==
    /\ task[t].pc = "lg_password"
    /\ \E status \in {302, 200, 400}, loc \in Locs \cup {NoLoc}, errorText \in BOOLEAN :
          LET after == AfterPassword(task[t], status, loc, errorText)
          IN /\ after.hops <= cap
             /\ task' = [task EXCEPT ![t] = Answered(after, status)]
    /\ UNCHANGED <<mem, openid_config, file, now, gen, server, peer, geocode_cache, cache_call>>

LoginChainResponse(t, cap) ==
    /\ task[t].pc = "lg_chain"
    /\ \E status \in ChainStatuses, loc \in Locs \cup {NoLoc}, js \in JsTargets,
          hasCsrf \in BOOLEAN :
          LET after == AfterChainGet(task[t], status, loc, js, hasCsrf)
              met == status = 200 /\ IsConsentPage(task[t].location)
          IN /\ after.hops <= cap
             /\ task' = [task EXCEPT ![t] =
                            [Answered(after, status)
                               EXCEPT !.consentPages = IF met THEN @ + 1 ELSE @,
                                      !.consent_location = NoLoc]]
    /\ UNCHANGED <<mem, openid_config, file, now, gen, server, peer, geocode_cache, cache_call>>

LoginConsentResponse(t, cap) ==
    /\ task[t].pc = "lg_consent"
    /\ \E status \in {302, 500}, loc \in Locs \cup {NoLoc} :
          LET after == AfterConsent(task[t], loc)
          IN /\ after.hops <= cap
             /\ task' = [task EXCEPT ![t] =
                            [Answered(after, status) EXCEPT !.consent_location = loc]]
    /\ UNCHANGED <<mem, openid_config, file, now, gen, server, peer, geocode_cache, cache_call>>

\* login(), the assignments after a 200 of the token endpoint.
LoginAssign(m, tokens, n) ==
    [m EXCEPT !.access_token = tokens.access_token,
              !.refresh_token = IF tokens.has_refresh THEN tokens.refresh_token ELSE None,
              !.id_token = tokens.id_token,
              !.token_expiry = ExpiryFrom(n)]

LoginTokenResponse(t) ==
    /\ task[t].pc = "lg_token"
    /\ \E status \in {200, 400}, shape \in TokenShapes :
          IF status # 200
          THEN /\ task' = [task EXCEPT ![t] = Answered(Raise(task[t], "token"), status)]
               /\ UNCHANGED <<mem, gen>>
          ELSE /\ gen < MaxGen
               /\ gen' = gen + 1
               /\ mem' = LoginAssign(mem, TokenResponse(shape, gen + 1), now)
               /\ task' = [task EXCEPT ![t] =
                              Answered(PostMbb([task[t] EXCEPT !.tokens = gen + 1], mem'),
                                       status)]
    /\ UNCHANGED <<openid_config, file, now, server, peer, geocode_cache, cache_call>>

\* Time passes.  The clock is read without an await in between by the test
\* of the cached token, and by the expiry assignments, so it is enough to
\* let it advance between two calls.
Tick ==
    /\ \A t \in Tasks : task[t].pc \in {"idle", "done"}
    /\ now < MaxNow
    /\ now' = now + 1
    /\ UNCHANGED <<mem, openid_config, file, gen, task, server, peer, geocode_cache, cache_call>>

(***************************************************************************)
(* The geocode cache (audi_awtrix.py): the rows of the table geocode_cache, *)
(* keyed by the rounded coordinates, each with the timestamp (in seconds)  *)
(* of its last insertion or hit.  A row also records the number of the     *)
(* call that last used it, and cache_call the last call made and the rows  *)
(* it deleted.                                                             *)
(***************************************************************************)
\* The table holds at most this many rows after cache_geocode (10000 in the
\* program).
GEOCODE_CACHE_MAX_ENTRIES == 2
\* The number of calls made on the cache.
MaxCacheCalls == 4

\* The rounded coordinates: (lat_round, lon_round).
Coordinates == {1, 2, 3}

Row(k, ts, n) == [key |-> k, timestamp |-> ts, used |-> n]
NoCall == [op |-> "none", key |-> 0, n |-> 0, evicted |-> {}]
CacheCall(op, k, n, evicted) == [op |-> op, key |-> k, n |-> n, evicted |-> evicted]

\* SELECT ... WHERE lat = ? AND lon = ?
RowsAt(rows, k) == {r \in rows : r.key = k}

\* UPDATE geocode_cache SET timestamp = ? WHERE lat = ? AND lon = ?
Touch(rows, k, ts, n) == {IF r.key = k THEN Row(k, ts, n) ELSE r : r \in rows}

\* INSERT OR REPLACE INTO geocode_cache
InsertOrReplace(rows, k, ts, n) == (rows \ RowsAt(rows, k)) \cup {Row(k, ts, n)}

\* SELECT rowid ... ORDER BY timestamp ASC LIMIT ?: the sets of rows that can
\* come first; SQL leaves the order of rows of equal timestamp open.
Oldest(rows, limit) ==
    {d \in SUBSET rows :
        /\ Cardinality(d) = limit
        /\ \A x \in d, r \in rows \ d : x.timestamp <= r.timestamp}

\* The rows cache_geocode deletes after its insertion.
Eviction(rows) ==
    IF Cardinality(rows) > GEOCODE_CACHE_MAX_ENTRIES
    THEN Oldest(rows, Cardinality(rows) - GEOCODE_CACHE_MAX_ENTRIES)
    ELSE {{}}

get_cached_geocode(k) ==
    /\ cache_call.n < MaxCacheCalls
    /\ geocode_cache' = IF RowsAt(geocode_cache, k) # {}
                        THEN Touch(geocode_cache, k, now, cache_call.n + 1)
                        ELSE geocode_cache
    /\ cache_call' = CacheCall("get_cached_geocode", k, cache_call.n + 1, {})
    /\ UNCHANGED <<mem, openid_config, file, now, gen, task, server, peer>>

cache_geocode(k) ==
    /\ cache_call.n < MaxCacheCalls
    /\ LET inserted == InsertOrReplace(geocode_cache, k, now, cache_call.n + 1)
       IN \E evicted \in Eviction(inserted) :
             /\ geocode_cache' = inserted \ evicted
             /\ cache_call' = CacheCall("cache_geocode", k, cache_call.n + 1, evicted)
    /\ UNCHANGED <<mem, openid_config, file, now, gen, task, server, peer>>

(***************************************************************************)
(* Spec: two tasks calling authenticated_get on a session that has logged  *)
(* in (through the full login, or from the cached file, in which case the  *)
(* session holds no OpenID configuration).                                 *)
(***************************************************************************)
LoggedInRecord ==
    [access_token |-> Tok("access", 0), refresh_token |-> Tok("refresh", 0),
     id_token |-> Tok("id", 0), mbb_token |-> Tok("mbb", 0),
     token_expiry |-> At(1), mbb_token_expiry |-> At(1)]

Init ==
    /\ mem = LoggedInRecord
    /\ openid_config \in BOOLEAN
    /\ file = FileOf("ok", SavedRecord(LoggedInRecord))
    /\ now = 0
    /\ gen = 0
    /\ task = [t \in Tasks |-> IdleTask]
    /\ server = OneServer
    /\ peer = EmptyRecord
    /\ geocode_cache = {}
    /\ cache_call = NoCall

Next ==
    \/ \E t \in Tasks : AgStart(t)
    \/ \E t \in Tasks : AgResponse(t)
    \/ \E t \in Tasks : RefreshConfigResponse(t)
    \/ \E t \in Tasks : RefreshTokenResponse(t)
    \/ \E t \in Tasks : MbbResponse(t)
    \/ \E t \in Tasks : SaveCrash(t)

Spec == Init /\ [][Next]_vars

(***************************************************************************)
(* LoginSpec: one task calling login() on a new session, whatever the      *)
(* token file holds.                                                       *)
(***************************************************************************)
LoginTasks == {1}

InitRecords ==
    {[access_token |-> Tok("access", 0), refresh_token |-> r, id_token |-> Tok("id", 0),
      mbb_token |-> m, token_expiry |-> te, mbb_token_expiry |-> me] :
        r \in {None, Empty, Tok("refresh", 0)}, m \in {None, Tok("mbb", 0)},
        te \in {BadIso, Iso(1)}, me \in {None, BadIso, Iso(1)}}

InitFiles == {MissingFile, CorruptFile} \cup {FileOf("ok", rec) : rec \in InitRecords}

LoginInit ==
    /\ mem = EmptyRecord
    /\ openid_config = FALSE
    /\ file \in InitFiles
    /\ now = 0
    /\ gen = 0
    /\ task = [t \in Tasks |-> IdleTask]
    /\ server = OneServer
    /\ peer = EmptyRecord
    /\ geocode_cache = {}
    /\ cache_call = NoCall

LoginStep(t, cap) ==
    \/ LoginStart(t)
    \/ LoginConfigResponse(t)
    \/ LoginAuthPageResponse(t)
    \/ LoginAuthPageRedirected(t)
    \/ LoginEmailResponse(t)
    \/ LoginAuthenticateResponse(t)
    \/ LoginPasswordResponse(t, cap)
    \/ LoginChainResponse(t, cap)
    \/ LoginConsentResponse(t, cap)
    \/ LoginTokenResponse(t)
    \/ RefreshConfigResponse(t)
    \/ RefreshTokenResponse(t)
    \/ MbbResponse(t)

LoginNext == (\E t \in LoginTasks : LoginStep(t, LoginHops)) \/ Tick

LoginSpec == LoginInit /\ [][LoginNext]_vars

(***************************************************************************)
(* ChainSpec: one full login on a new session without a token file, its    *)
(* redirect chain followed past MaxHops.                                   *)
(***************************************************************************)
ChainInit ==
    /\ mem = EmptyRecord
    /\ openid_config = FALSE
    /\ file = MissingFile
    /\ now = 0
    /\ gen = 0
    /\ task = [t \in Tasks |-> IdleTask]
    /\ server = OneServer
    /\ peer = EmptyRecord
    /\ geocode_cache = {}
    /\ cache_call = NoCall

ChainStep(t, cap) ==
    \/ LoginStart(t)
    \/ LoginConfigResponse(t)
    \/ LoginAuthPageResponse(t)
    \/ LoginAuthPageRedirected(t)
    \/ LoginEmailResponse(t)
    \/ LoginAuthenticateResponse(t)
    \/ LoginPasswordResponse(t, cap)
    \/ LoginChainResponse(t, cap)
    \/ LoginConsentResponse(t, cap)
    \/ LoginTokenResponse(t)
    \/ MbbResponse(t)

ChainNext == \E t \in LoginTasks : ChainStep(t, MaxHops + 1)

ChainSpec == ChainInit /\ [][ChainNext]_vars

(***************************************************************************)
(* FlowSpec: one full login on a new session without a token file, against *)
(* every server in Servers.                                                *)
(***************************************************************************)
FlowInit ==
    /\ mem = EmptyRecord
    /\ openid_config = FALSE
    /\ file = MissingFile
    /\ now = 0
    /\ gen = 0
    /\ task = [t \in Tasks |-> IdleTask]
    /\ server \in Servers
    /\ peer = EmptyRecord
    /\ geocode_cache = {}
    /\ cache_call = NoCall

FlowNext == \E t \in LoginTasks : ChainStep(t, HopBound)

FlowSpec == FlowInit /\ [][FlowNext]_vars

(***************************************************************************)
(* TelemetrySpec: the telemetry functions called on a session that has     *)
(* logged in: get_vehicles (audi_connect.py), get_soc and                  *)
(* get_parking_position (audi_awtrix.py).                                  *)
(***************************************************************************)
\* get_vehicles: what it does with the result of authenticated_get.
AfterGetVehicles(rec) ==
    IF rec.pc = "done" /\ rec.result = "returned" /\ rec.status # 200
    THEN Raised(rec, "get_vehicles")
    ELSE rec

GetVehiclesStart(t) ==
    /\ task[t].pc \in {"idle", "done"}
    /\ task[t].calls < MaxCalls
    /\ task' = [task EXCEPT ![t] =
                   IssueGet(NewCall(task[t], "get_vehicles", file, now), mem)]
    /\ UNCHANGED <<mem, openid_config, file, now, gen, server, peer, geocode_cache, cache_call>>

GetVehiclesResponse(t) ==
    /\ task[t].pc = "ag_get" /\ task[t].op = "get_vehicles"
    /\ \E status \in ApiStatuses :
          task' = [task EXCEPT ![t] =
                     [AfterGetVehicles(AgAfterResponse(task[t], mem, openid_config, status))
                        EXCEPT !.lastStatus = status,
                               !.first401 = task[t].first401
                                              \/ (status = 401 /\ Gets(task[t]) = 1)]]
    /\ UNCHANGED <<mem, openid_config, file, now, gen, server, peer, geocode_cache, cache_call>>

\* get_soc and get_parking_position send their GET on the session themselves,
\* with the session's access token as bearer.
DirectGet(rec, m) == [Sent(rec, "get", m.access_token) EXCEPT !.pc = "direct_get"]

SocStatuses == {200, 207, 401, 500}
ParkingStatuses == {200, 204, 401, 500}

\* The statuses each of them returns on; any other status raises.
ReturnsOn(op) == IF op = "get_soc" THEN {200, 207} ELSE {200, 204}

AfterDirectGet(rec, status) ==
    IF status \in ReturnsOn(rec.op)
    THEN [rec EXCEPT !.pc = "done", !.result = "returned", !.status = status]
    ELSE Raised(rec, "http_status")

GetSocStart(t) ==
    /\ task[t].pc \in {"idle", "done"}
    /\ task[t].calls < MaxCalls
    /\ task' = [task EXCEPT ![t] = DirectGet(NewCall(task[t], "get_soc", file, now), mem)]
    /\ UNCHANGED <<mem, openid_config, file, now, gen, server, peer, geocode_cache, cache_call>>

GetParkingStart(t) ==
    /\ task[t].pc \in {"idle", "done"}
    /\ task[t].calls < MaxCalls
    /\ task' = [task EXCEPT ![t] =
                   DirectGet(NewCall(task[t], "get_parking_position", file, now), mem)]
    /\ UNCHANGED <<mem, openid_config, file, now, gen, server, peer, geocode_cache, cache_call>>

DirectGetResponse(t) ==
    /\ task[t].pc = "direct_get"
    /\ \E status \in IF task[t].op = "get_soc" THEN SocStatuses ELSE ParkingStatuses :
          task' = [task EXCEPT ![t] =
                     [AfterDirectGet(task[t], status)
                        EXCEPT !.lastStatus = status,
                               !.first401 = status = 401 /\ Gets(task[t]) = 1]]
    /\ UNCHANGED <<mem, openid_config, file, now, gen, server, peer, geocode_cache, cache_call>>

TelemetryNext ==
    \/ \E t \in Tasks : GetVehiclesStart(t)
    \/ \E t \in Tasks : GetVehiclesResponse(t)
    \/ \E t \in Tasks : GetSocStart(t)
    \/ \E t \in Tasks : GetParkingStart(t)
    \/ \E t \in Tasks : DirectGetResponse(t)
    \/ \E t \in Tasks : RefreshConfigResponse(t)
    \/ \E t \in Tasks : RefreshTokenResponse(t)
    \/ \E t \in Tasks : MbbResponse(t)

TelemetrySpec == Init /\ [][TelemetryNext]_vars

(***************************************************************************)
(* SessionSpec: main().  login() is called on a new session whose token    *)
(* file was written by an earlier run, and once it has returned the        *)
(* session is used for authenticated_get.  The two expiries of the file    *)
(* are those of two different tokens, each computed from the lifetime its  *)
(* own endpoint announced.                                                 *)
(***************************************************************************)
SessionTimes == {0, 1}

SessionRecords ==
    {[LoggedInRecord EXCEPT !.token_expiry = At(te), !.mbb_token_expiry = At(me)] :
        te \in SessionTimes, me \in SessionTimes}

SessionInit ==
    /\ mem = EmptyRecord
    /\ openid_config = FALSE
    /\ file \in {FileOf("ok", SavedRecord(rec)) : rec \in SessionRecords}
    /\ now = 0
    /\ gen = 0
    /\ task = [t \in Tasks |-> IdleTask]
    /\ server = OneServer
    /\ peer = EmptyRecord
    /\ geocode_cache = {}
    /\ cache_call = NoCall

LoginReturned == \A t \in LoginTasks : task[t].pc = "done" /\ task[t].result = "returned"

SessionNext ==
    \/ \E t \in LoginTasks : LoginStep(t, LoginHops)
    \/ Tick
    \/ \E t \in Tasks \ LoginTasks : LoginReturned /\ AgStart(t)
    \/ \E t \in Tasks \ LoginTasks : AgResponse(t)
    \/ \E t \in Tasks \ LoginTasks : RefreshConfigResponse(t)
    \/ \E t \in Tasks \ LoginTasks : RefreshTokenResponse(t)
    \/ \E t \in Tasks \ LoginTasks : MbbResponse(t)

SessionSpec == SessionInit /\ [][SessionNext]_vars

(***************************************************************************)
(* CacheSpec: the geocode cache alone, from an empty table.                *)
(***************************************************************************)
CacheNext ==
    \/ \E k \in Coordinates : get_cached_geocode(k)
    \/ \E k \in Coordinates : cache_geocode(k)
    \/ Tick

CacheSpec == Init /\ [][CacheNext]_vars

(***************************************************************************)
(* StoreSpec: the token store alone.  A second AudiConnect session (peer)  *)
(* holding any six fields saves them with _save_tokens, and the session    *)
(* loads the file with _load_tokens, whatever it held before.              *)
(***************************************************************************)
StoreTimes == {None, At(1)}

StoreRecords ==
    [access_token : {None, Tok("access", 1)}, refresh_token : {None, Tok("refresh", 1)},
     id_token : {None, Tok("id", 1)}, mbb_token : {None, Tok("mbb", 1)},
     token_expiry : StoreTimes, mbb_token_expiry : StoreTimes]

\* _save_tokens called on the peer session.
PeerSave ==
    /\ \E outcome \in SaveOutcomes : file' = FileAfterSave(peer, file, outcome)
    /\ UNCHANGED <<mem, openid_config, now, gen, task, server, peer, geocode_cache, cache_call>>

\* _load_tokens called on the session.
LoadTokens(t) ==
    /\ task[t].pc = "idle"
    /\ LET lr == LoadResult(mem, file)
       IN /\ mem' = lr.mem
          /\ task' = [task EXCEPT ![t] =
                         [NewCall(task[t], "load", file, now)
                            EXCEPT !.pc = "done",
                                   !.result = IF lr.ok THEN "returned" ELSE "absent"]]
    /\ UNCHANGED <<openid_config, file, now, gen, server, peer, geocode_cache, cache_call>>

StoreInit ==
    /\ mem \in StoreRecords
    /\ openid_config = FALSE
    /\ file = MissingFile
    /\ now = 0
    /\ gen = 0
    /\ task = [t \in Tasks |-> IdleTask]
    /\ server = OneServer
    /\ peer \in StoreRecords
    /\ geocode_cache = {}
    /\ cache_call = NoCall

StoreNext == PeerSave \/ \E t \in LoginTasks : LoadTokens(t)

StoreSpec == StoreInit /\ [][StoreNext]_vars

(***************************************************************************)
(* UserSpec: two sessions created with different usernames.  The peer is   *)
(* the session of user A, which has logged in and saves its tokens; the    *)
(* session is a new one of user B, which calls login().  Both use the one  *)
(* TOKEN_FILE.  The tokens of generation 0 are the ones issued to A.       *)
(***************************************************************************)
UserInit ==
    /\ mem = EmptyRecord
    /\ openid_config = FALSE
    /\ file = MissingFile
    /\ now = 0
    /\ gen = 0
    /\ task = [t \in Tasks |-> IdleTask]
    /\ server = OneServer
    /\ peer = LoggedInRecord
    /\ geocode_cache = {}
    /\ cache_call = NoCall

UserNext == PeerSave \/ LoginNext

UserSpec == UserInit /\ [][UserNext]_vars

(***************************************************************************)
(* Properties of authenticated_get (Spec).                                 *)
(***************************************************************************)
AgCalls == {t \in Tasks : task[t].op = "ag"}
RefreshPcs == {"rf_config", "rf_token", "mbb"}
RefreshStages == {"openid", "refresh", "mbb", "save"}
RefreshPosts(t) == Count(task[t].reqs, "refresh_post")

\* C1 as stated: a call of authenticated_get whose first GET was answered 401
\* ends having made one _refresh_tokens call and two GETs and returns the
\* status of the second GET; any other call ends having made one GET and no
\* refresh and returns that GET's status.
C1_AlwaysOneMoreGet ==
    \A t \in AgCalls :
        task[t].pc = "done" =>
            /\ task[t].result = "returned"
            /\ task[t].status = task[t].lastStatus
            /\ IF task[t].first401
               THEN task[t].refreshCalls = 1 /\ Gets(task[t]) = 2
               ELSE task[t].refreshCalls = 0 /\ Gets(task[t]) = 1

\* C1, amended: a call of authenticated_get never makes more than one
\* _refresh_tokens call nor more than two GETs, and it makes the refresh call
\* exactly when its first GET was answered 401.  It ends, after a 401, either
\* returning the status of its second GET (the refresh succeeded), whatever
\* that status is, or raising the failure of the refresh having sent no second
\* GET; without a 401 it returns the status of its only GET.
C1_RefreshAndRetryOnce ==
    \A t \in AgCalls :
        /\ task[t].refreshCalls <= 1
        /\ Gets(task[t]) <= 2
        /\ (task[t].refreshCalls = 1) = task[t].first401
        /\ task[t].pc = "done" =>
              IF ~task[t].first401
              THEN /\ Gets(task[t]) = 1
                   /\ task[t].result = "returned"
                   /\ task[t].status = task[t].lastStatus
              ELSE IF task[t].result = "returned"
              THEN Gets(task[t]) = 2 /\ task[t].status = task[t].lastStatus
              ELSE /\ task[t].result = "raised"
                   /\ task[t].raisedAt \in RefreshStages
                   /\ Gets(task[t]) = 1

\* A call answered 401 twice has returned the second 401 after one refresh.
C1_Witness ==
    \E t \in AgCalls :
        /\ task[t].pc = "done" /\ task[t].first401 /\ task[t].result = "returned"
        /\ task[t].status = 401 /\ Gets(task[t]) = 2 /\ task[t].refreshCalls = 1

\* C2: no two _refresh_tokens executions are in progress at the same time,
\* and two calls of authenticated_get in progress together that both got 401
\* on their first GET have sent one refresh request in total.
C2_SingleFlightRefresh ==
    /\ Cardinality({t \in AgCalls : task[t].pc \in RefreshPcs}) <= 1
    /\ (\A t \in Tasks : t \in AgCalls /\ task[t].first401 /\ task[t].pc # "done")
          => RefreshPosts(1) + RefreshPosts(2) <= 1

\* C7: the bearer credential of every GET of authenticated_get is a
\* capability token (the token of the id_token exchange).
C7_BearerIsCapabilityToken ==
    \A t \in AgCalls :
        \A i \in DOMAIN task[t].reqs :
            task[t].reqs[i].k = "get" => task[t].reqs[i].v.k = "mbb"

(***************************************************************************)
(* Properties of login() (LoginSpec, ChainSpec).                           *)
(***************************************************************************)
LoginCalls == {t \in LoginTasks : task[t].op = "login"}

\* The file is a JSON object whose expiry values, where present, parse.
RecordParses(f) ==
    /\ f.st = "ok"
    /\ Truthy(f.rec.token_expiry) => ParsesAsIso(f.rec.token_expiry)
    /\ Truthy(f.rec.mbb_token_expiry) => ParsesAsIso(f.rec.mbb_token_expiry)

\* The file holds a capability token whose expiry is after n.
CapabilityUnexpired(f, n) ==
    /\ f.st = "ok"
    /\ Truthy(f.rec.mbb_token)
    /\ ParsesAsIso(f.rec.mbb_token_expiry)
    /\ n < f.rec.mbb_token_expiry.g

\* The file holds a capability-token expiry that is not after n, and a
\* non-empty refresh token.
ExpiredWithRefreshToken(f, n) ==
    /\ f.st = "ok"
    /\ ParsesAsIso(f.rec.mbb_token_expiry)
    /\ ~(n < f.rec.mbb_token_expiry.g)
    /\ Truthy(f.rec.refresh_token)

ReturnedCached(t) ==
    /\ task[t].pc = "done" /\ task[t].result = "returned" /\ task[t].path = "cached"
    /\ task[t].reqs = <<>> /\ task[t].hops = 0
    /\ task[t].saves = 0 /\ file = task[t].fileAtStart

\* C3 as stated: whenever the file held an unexpired capability token when
\* login() was called, login() has returned on the cached path, with no
\* request sent and no write of the file.
C3_UnexpiredMeansCached ==
    \A t \in LoginCalls :
        CapabilityUnexpired(task[t].fileAtStart, task[t].startedAt) => ReturnedCached(t)

\* C3, amended: the same, for a file whose token_expiry is absent or parses.
C3_CachedLogin ==
    \A t \in LoginCalls :
        (/\ CapabilityUnexpired(task[t].fileAtStart, task[t].startedAt)
         /\ RecordParses(task[t].fileAtStart))
            => ReturnedCached(t)

C3_Witness ==
    \E t \in LoginCalls :
        /\ CapabilityUnexpired(task[t].fileAtStart, task[t].startedAt)
        /\ RecordParses(task[t].fileAtStart)
        /\ Truthy(task[t].fileAtStart.rec.refresh_token)
        /\ ReturnedCached(t)

FullLoginKinds ==
    {"authpage_get", "email_post", "authenticate_get", "password_post",
     "consent_post", "token_post"}

NoFullLoginRequest(t) ==
    /\ task[t].hops = 0
    /\ \A i \in DOMAIN task[t].reqs : task[t].reqs[i].k \notin FullLoginKinds

C5_RefreshFailureFallsThrough ==
    \A t \in LoginCalls :
        /\ task[t].result = "raised" => task[t].ctx = "login_full"
        /\ task[t].refreshFailed # "none" =>
              /\ task[t].refreshFailed \in RefreshStages
              /\ task[t].ctx = "login_full"
              /\ task[t].path # "refreshed"
              /\ Count(task[t].reqs, "openid_get") = 2
        /\ (task[t].refreshCalls = 1 /\ task[t].ctx = "login_full")
              => task[t].refreshFailed # "none"

\* login() has succeeded by the full login after the capability-token
\* exchange of its refresh attempt was rejected.
C5_Witness ==
    \E t \in LoginCalls :
        /\ task[t].refreshFailed = "mbb"
        /\ task[t].pc = "done" /\ task[t].result = "returned" /\ task[t].path = "full"

\* C6: when login() has ended in failure, and when its _refresh_tokens has
\* just failed, the token file is what it was when login() was called.
C6_FailureLeavesFile ==
    \A t \in LoginCalls :
        (\/ task[t].pc = "done" /\ task[t].result = "raised"
         \/ task[t].pc = "lg_config" /\ task[t].refreshFailed # "none")
            => file = task[t].fileAtStart

\* C8: the redirect chain of a login() is never followed for more than
\* MaxHops GETs.
C8_RedirectChainBounded == \A t \in LoginCalls : task[t].hops <= MaxHops

C10_JsRedirectFollowed ==
    \A t \in LoginCalls :
        (task[t].jsMatch /\ CodeOf(task[t].new_loc) > 0)
            => task[t].code = CodeOf(task[t].new_loc)

(***************************************************************************)
(* Properties of the full login (FlowSpec).                                *)
(***************************************************************************)
\* The request kinds that may follow one another in a full login, the GETs
\* of the redirect chain (counted in hops) left aside: the authorization page
\* is fetched again when it answers 302, and the consent form is posted
\* inside the chain.
FlowOrder ==
    {<<"openid_get", "authpage_get">>, <<"authpage_get", "authpage_get">>,
     <<"authpage_get", "email_post">>, <<"email_post", "authenticate_get">>,
     <<"authenticate_get", "password_post">>, <<"password_post", "consent_post">>,
     <<"consent_post", "consent_post">>, <<"password_post", "token_post">>,
     <<"consent_post", "token_post">>, <<"token_post", "mbb_post">>}

\* The request whose answer login() is waiting for at each position.
Awaited ==
    [lg_config |-> "openid_get", lg_authpage |-> "authpage_get",
     lg_authpage2 |-> "authpage_get", lg_email |-> "email_post",
     lg_authenticate |-> "authenticate_get", lg_password |-> "password_post",
     lg_consent |-> "consent_post", lg_token |-> "token_post", mbb |-> "mbb_post"]

OnceKinds ==
    {"openid_get", "email_post", "authenticate_get", "password_post", "token_post",
     "mbb_post"}

\* C11: the requests of a full login are issued in the fixed order, each one
\* when the answer to the one before it has been handled (login() waits for
\* the answer to the last request it issued and for nothing else); the GETs
\* of the chain come after the password POST and before the token POST; the
\* authenticate-page GET carries the relayState of the email redirect, and
\* the password POST carries that relayState and the csrf token and the hmac
\* of the authenticate page.
C11_FixedOrderAndInputs ==
    \A t \in LoginCalls :
        LET reqs == task[t].reqs
        IN /\ reqs # <<>> => reqs[1].k = "openid_get"
           /\ \A i \in DOMAIN reqs :
                 i > 1 => <<reqs[i - 1].k, reqs[i].k>> \in FlowOrder
           /\ \A k \in OnceKinds : Count(reqs, k) <= 1
           /\ Count(reqs, "authpage_get") <= 2
           /\ task[t].pc \in DOMAIN Awaited => reqs[Len(reqs)].k = Awaited[task[t].pc]
           /\ task[t].hops > 0 => Count(reqs, "password_post") = 1
           /\ task[t].pc \in {"lg_chain", "lg_consent"} =>
                 /\ Count(reqs, "password_post") = 1
                 /\ Count(reqs, "token_post") = 0
           /\ \A i \in DOMAIN reqs :
                 /\ reqs[i].k = "authenticate_get" => reqs[i].v = Tok("relay", server.relay)
                 /\ reqs[i].k = "password_post" =>
                       reqs[i].v = PasswordData(server.relay, server.csrf, server.hmac)

\* A full login has gone through every step, with the authorization page
\* redirected and a consent page in the chain, against a server whose
\* relayState and csrf token are 2 and whose hmac is 1.
C11_Witness ==
    \E t \in LoginCalls :
        /\ task[t].pc = "done" /\ task[t].result = "returned" /\ task[t].path = "full"
        /\ task[t].hops = 2 /\ Count(task[t].reqs, "consent_post") = 1
        /\ Count(task[t].reqs, "authpage_get") = 2
        /\ server = [relay |-> 2, csrf |-> 2, hmac |-> 1]
        /\ LastSent(task[t], "password_post") = PasswordData(2, 2, 1)
\* The steps at which login() parses a page or a redirect, and what it may
\* find missing there.
ShapePcs == {"lg_authpage", "lg_authpage2", "lg_email", "lg_authenticate"}
AbsentShapes == {"no_form", "no_relay_state", "no_idk", "no_csrf_token", "no_hmac"}

\* C12: a step of login() that parses a page or a redirect stores no token
\* in memory or in the file; and when the form action, the relayState,
\* window._IDK, the csrf_token or the hmac is missing, that step ends login()
\* with an exception, sends no request, and the request it answered had been
\* sent once (the authorization page is fetched twice when it redirects).
C12_ShapeErrorStep(t) ==
    task[t].pc \in ShapePcs =>
        /\ mem' = mem /\ file' = file
        /\ task[t].seen \notin AbsentShapes
        /\ task'[t].seen \in AbsentShapes =>
              /\ task'[t].pc = "done" /\ task'[t].result = "raised"
              /\ task'[t].reqs = task[t].reqs
              /\ Count(task[t].reqs, Awaited[task[t].pc])
                    = IF task[t].pc = "lg_authpage2" THEN 2 ELSE 1
              /\ Count(task[t].reqs, "token_post") = 0

C12_ShapeErrorIsFatal == [][\A t \in LoginTasks : C12_ShapeErrorStep(t)]_vars

\* login() has failed on an authenticate page without hmac, after a refresh
\* attempt whose capability-token exchange was rejected.
C12_Witness ==
    \E t \in LoginCalls :
        /\ task[t].pc = "done" /\ task[t].result = "raised"
        /\ task[t].seen = "no_hmac" /\ task[t].raisedAt = "no_hmac"
        /\ task[t].refreshFailed = "mbb"
\* C13: when the last answer a full login received had a 4xx or 5xx status,
\* login() has ended with an exception (and so sent no request after it).
C13_BadStatusIsFatal ==
    \A t \in LoginCalls :
        task[t].badStatus => task[t].pc = "done" /\ task[t].result = "raised"
(***************************************************************************)
(* Properties of _refresh_tokens (Spec: called by authenticated_get, one   *)
(* or two calls at a time).                                                *)
(***************************************************************************)
\* The step with which the _refresh_tokens of task t returns to its caller.
RefreshReturns(t) ==
    /\ task[t].pc = "mbb" /\ task[t].ctx \in {"ag", "login_refresh"}
    /\ task'[t].pc = "ag_get" \/ task'[t].path = "refreshed"

\* C14: when _refresh_tokens returns, the last two requests it sent are the
\* refresh_token grant and then one capability-token exchange, which posted
\* the id token of the answer to that grant; the session then holds the
\* capability token of that id token with a new expiry, an id token and an
\* OAuth expiry at least as new as that answer, and the file holds the
\* session's six fields.
C14_RefreshStep(t) ==
    RefreshReturns(t) =>
        LET reqs == task[t].reqs
            n == Len(reqs)
        IN /\ Count(reqs, "refresh_post") = 1 /\ Count(reqs, "mbb_post") = 1
           /\ reqs[n - 1].k = "refresh_post" /\ reqs[n].k = "mbb_post"
           /\ task[t].tokens > 0
           /\ reqs[n].v = Tok("id", task[t].tokens)
           /\ mem'.mbb_token = Tok("mbb", task[t].tokens)
           /\ mem'.mbb_token_expiry = ExpiryFrom(now)
           /\ mem'.id_token.g >= task[t].tokens
           /\ mem'.token_expiry = ExpiryFrom(now)
           /\ file' = FileOf("ok", SavedRecord(mem'))

C14_RefreshThenExchange == [][\A t \in Tasks : C14_RefreshStep(t)]_vars

\* A call of authenticated_get has returned after a refresh, and session and
\* file hold the capability token of the id token that refresh was answered.
C14_Witness ==
    \E t \in AgCalls :
        /\ task[t].pc = "done" /\ task[t].result = "returned" /\ Gets(task[t]) = 2
        /\ task[t].tokens > 0
        /\ mem.mbb_token = Tok("mbb", task[t].tokens)
        /\ mem.id_token = Tok("id", task[t].tokens)
        /\ file = FileOf("ok", SavedRecord(mem))
\* C15: in the session and in the token file, a capability-token expiry
\* comes with an access token.
C15_ExpiryImpliesAccessToken ==
    /\ Truthy(mem.mbb_token_expiry) => Truthy(mem.access_token)
    /\ file.st = "ok" =>
          (Truthy(file.rec.mbb_token_expiry) => Truthy(file.rec.access_token))
\* The session's tokens all come from one completed login or refresh: the
\* capability token is the one derived from the session's id token, and the
\* access token was issued with that id token.
SameExchange(m) ==
    /\ m.mbb_token = MbbFor(m.id_token)
    /\ Truthy(m.access_token) => m.access_token.g = m.id_token.g

\* C16: whenever authenticated_get builds a request, the session's tokens
\* all come from one completed login or refresh.
C16_ReaderStep(t) == Gets(task'[t]) > Gets(task[t]) => SameExchange(mem')

C16_NoHalfUpdatedRead == [][\A t \in Tasks : C16_ReaderStep(t)]_vars
(***************************************************************************)
(* Properties of the token store.                                          *)
(***************************************************************************)
\* C17: after a crash of the process during _save_tokens the token file is
\* not a truncated or partially written record.
C17_SaveIsAtomic ==
    (\E t \in Tasks : task[t].pc = "crashed") => file.st # "partial"
\* C18: a session that has loaded the file the peer saved holds the peer's
\* six fields, whatever it held before.
C18_RoundTrip ==
    \A t \in LoginTasks :
        (/\ task[t].op = "load" /\ task[t].pc = "done"
         /\ task[t].fileAtStart = FileOf("ok", SavedRecord(peer)))
            => mem = peer
\* The file is missing, is not valid JSON, or holds an expiry that does not
\* parse.
Unloadable(f) ==
    \/ f.st # "ok"
    \/ Truthy(f.rec.token_expiry) /\ ~ParsesAsIso(f.rec.token_expiry)
    \/ Truthy(f.rec.mbb_token_expiry) /\ ~ParsesAsIso(f.rec.mbb_token_expiry)

\* C19: a login() called with such a file has gone straight to the full
\* login: it did not return on the cached path, called no _refresh_tokens,
\* its first request is the OpenID configuration GET of the full login, and
\* when it raised it did so in the full login.
C19_UnloadableMeansFullLogin ==
    \A t \in LoginCalls :
        Unloadable(task[t].fileAtStart) =>
            /\ task[t].ctx = "login_full"
            /\ task[t].refreshCalls = 0 /\ RefreshPosts(t) = 0
            /\ task[t].path \in {"none", "full"}
            /\ task[t].reqs # <<>> /\ task[t].reqs[1].k = "openid_get"
            /\ Count(task[t].reqs, "openid_get") = 1
            /\ task[t].result = "raised" => task[t].raisedAt # "refresh"

\* A login() called with a file that holds a refresh token and a
\* capability-token expiry that does not parse has succeeded by the full
\* login.
C19_Witness ==
    \E t \in LoginCalls :
        /\ task[t].fileAtStart.st = "ok"
        /\ task[t].fileAtStart.rec.mbb_token_expiry = BadIso
        /\ Truthy(task[t].fileAtStart.rec.refresh_token)
        /\ task[t].pc = "done" /\ task[t].result = "returned" /\ task[t].path = "full"
(***************************************************************************)
(* Properties of two users' sessions (UserSpec).                           *)
(***************************************************************************)
\* C20: the login() of user B has not returned on the cached path holding
\* the capability token issued to user A, and has not sent A's refresh
\* token.
C20_RecordPerUsername ==
    \A t \in LoginCalls :
        /\ task[t].path = "cached" => mem.mbb_token # peer.mbb_token
        /\ \A i \in DOMAIN task[t].reqs :
              task[t].reqs[i].k = "refresh_post" => task[t].reqs[i].v # peer.refresh_token
(***************************************************************************)
(* Properties of the telemetry functions (TelemetrySpec).                  *)
(***************************************************************************)
TelemetryOps == {"get_vehicles", "get_soc", "get_parking_position"}

\* C21: a telemetry call whose first GET was answered 401 has, when it ends,
\* made one _refresh_tokens call, and, unless that refresh failed, sent its
\* GET a second time.
C21_TelemetryThroughCore ==
    \A t \in Tasks :
        (/\ task[t].op \in TelemetryOps
         /\ task[t].pc = "done" /\ task[t].first401) =>
            /\ task[t].refreshCalls = 1
            /\ task[t].raisedAt \notin RefreshStages => Gets(task[t]) = 2
\* C22: a login() whose _save_tokens failed, in its refresh attempt or in
\* the full login, has ended by raising that failure; the capability token
\* just obtained is in memory, and the exchange that obtained it is the last
\* request login() sent.
C22_WriteFailureSurfaced ==
    \A t \in LoginCalls :
        (task[t].refreshFailed = "save" \/ task[t].raisedAt = "save") =>
            /\ task[t].pc = "done" /\ task[t].result = "raised"
            /\ task[t].raisedAt = "save"
            /\ task[t].reqs[Len(task[t].reqs)].k = "mbb_post"
            /\ mem.mbb_token = Tok("mbb", task[t].tokens)

\* C23: login() posts the consent form only with a csrf token found in the
\* consent page; and a consent POST that was prepared without one, or whose
\* answer carries no Location header, ends login() in failure with no
\* further request.
C23_ConsentStep(t) ==
    /\ (task[t].pc # "lg_consent" /\ task'[t].pc = "lg_consent")
          => task'[t].consent_csrf # ""
    /\ (/\ task[t].pc = "lg_consent" /\ task'[t] # task[t]
        /\ task[t].consent_csrf = "" \/ ~NonEmpty(task'[t].consent_location))
          => /\ task'[t].pc = "done" /\ task'[t].result = "raised"
             /\ task'[t].reqs = task[t].reqs
             /\ task'[t].hops = task[t].hops

C23_ConsentShapeIsFatal == [][\A t \in LoginTasks : C23_ConsentStep(t)]_vars

\* C24: when login() leaves the redirect chain, the location it ended on
\* decides what follows: with a code parameter in its query string, that code
\* is posted in the authorization_code grant; with none there but one in the
\* fragment, the fragment's code is posted; with neither, login() has failed
\* and no token request was sent.
ChainPcs == {"lg_password", "lg_chain", "lg_consent"}

C24_CodeStep(t) ==
    LET l == task'[t].location
        posts == Count(task'[t].reqs, "token_post")
    IN (task[t].pc \in ChainPcs /\ task'[t].pc \notin ChainPcs) =>
          IF l.qcode > 0
          THEN /\ task'[t].pc = "lg_token" /\ posts = 1
               /\ LastSent(task'[t], "token_post") = Tok("code", l.qcode)
          ELSE IF l.fcode > 0
          THEN /\ task'[t].pc = "lg_token" /\ posts = 1
               /\ LastSent(task'[t], "token_post") = Tok("code", l.fcode)
          ELSE /\ task'[t].pc = "done" /\ task'[t].result = "raised"
               /\ posts = 0

C24_CodeFromQueryThenFragment == [][\A t \in LoginTasks : C24_CodeStep(t)]_vars

\* A chain has ended on a location with code 2 in its query and code 1 in its
\* fragment, and login() has posted code 2.
C24_Witness ==
    \E t \in LoginCalls :
        /\ task[t].pc = "lg_token" /\ task[t].location = BothCodeLoc
        /\ LastSent(task[t], "token_post") = Tok("code", 2)

(***************************************************************************)
(* Properties of a session used after login() (SessionSpec).               *)
(***************************************************************************)
\* The expiry the session holds for a credential it sends.
ExpiryOfCredential(m, v) ==
    IF v = m.access_token THEN m.token_expiry
    ELSE IF v = m.mbb_token THEN m.mbb_token_expiry
    ELSE None

\* C25: when login() has returned on the cached path and authenticated_get
\* is called at once, the bearer of its first GET is a token whose expiry, as
\* the session holds it, lies in the future.
C25_CachedBearerUnexpired ==
    \A t \in LoginCalls, u \in AgCalls :
        (/\ task[t].pc = "done" /\ task[t].path = "cached"
         /\ task[u].pc = "ag_get" /\ Gets(task[u]) = 1
         /\ task[u].startedAt = task[t].startedAt) =>
            LET e == ExpiryOfCredential(mem, LastSent(task[u], "get"))
            IN Truthy(e) /\ now < e.g

\* C26: the _load_tokens that login() starts with, when the file is missing
\* or cannot be parsed (so that it returns False), leaves the six token
\* fields of the session as they were.
C26_LoadStep(t) ==
    (task[t].pc = "idle" /\ task'[t].op = "login" /\ Unloadable(file)) => mem' = mem

C26_AbsentLeavesMemory == [][\A t \in LoginTasks : C26_LoadStep(t)]_vars

(***************************************************************************)
(* More properties of authenticated_get and _refresh_tokens (Spec).        *)
(***************************************************************************)
\* C27: the session, which logged in with a refresh token, holds a refresh
\* token after any number of _refresh_tokens calls, and so does every record
\* it has saved: no answer of the token endpoint makes it lose the one it
\* has.
C27_RefreshTokenKept ==
    /\ Truthy(mem.refresh_token)
    /\ file.st = "ok" => Truthy(file.rec.refresh_token)

\* C28: in an authenticated_get whose first GET was answered 401, a step of
\* _refresh_tokens that fails (an answer with an error status, or a save that
\* did not write the record) ends authenticated_get: the failure is raised
\* from the stage it occurred at, no request is sent by that step, and the
\* call has sent one GET and entered _refresh_tokens once.
RefreshStepFailed(t) ==
    \/ task'[t].badStatus
    \/ task[t].pc = "mbb" /\ file' # FileOf("ok", SavedRecord(mem'))

C28_FailedRefreshStep(t) ==
    (/\ task[t].op = "ag" /\ task[t].first401 /\ task[t].pc \in RefreshPcs
     /\ task'[t] # task[t] /\ task'[t].pc # "crashed"
     /\ RefreshStepFailed(t)) =>
        /\ task'[t].pc = "done" /\ task'[t].result = "raised"
        /\ task'[t].raisedAt \in RefreshStages
        /\ task'[t].reqs = task[t].reqs
        /\ Gets(task'[t]) = 1 /\ task'[t].refreshCalls = 1

C28_RefreshFailureIsRaised == [][\A t \in Tasks : C28_FailedRefreshStep(t)]_vars

\* An authenticated_get has raised after its refresh grant was rejected,
\* having sent one GET and one refresh grant.
C28_Witness ==
    \E t \in AgCalls :
        /\ task[t].pc = "done" /\ task[t].result = "raised"
        /\ task[t].raisedAt = "refresh" /\ task[t].badStatus /\ task[t].first401
        /\ Gets(task[t]) = 1 /\ RefreshPosts(t) = 1 /\ task[t].refreshCalls = 1

(***************************************************************************)
(* Properties of the geocode cache (CacheSpec).                            *)
(***************************************************************************)
\* C29: when cache_geocode has returned, the row of its coordinates is in
\* the table, and every row it deleted was last used before every row it
\* left.
C29_EvictsLeastRecentlyUsed ==
    cache_call.op = "cache_geocode" =>
        /\ RowsAt(geocode_cache, cache_call.key) # {}
        /\ \A d \in cache_call.evicted, r \in geocode_cache : d.used < r.used

====
